---- MODULE Spec2Model ----
(***************************************************************************)
(* Model of cci-utils (src/index.ts): the BCP and BBVA account-number to   *)
(* CCI encoders and the CCI decoder getCCIMetadata.                        *)
(*                                                                         *)
(* A JavaScript string is a sequence of one-character strings.  The three  *)
(* exported functions are pure; the state machine is a caller that picks   *)
(* an argument, calls an encoder, decodes the result and encodes the       *)
(* decoded account number again.                                           *)
(***************************************************************************)
EXTENDS Integers, Sequences, FiniteSets

VARIABLES accountNumber, accountType, encoder, cci, metadata, recci,
          other, otherCci, pc

vars == <<accountNumber, accountType, encoder, cci, metadata, recci,
          other, otherCci, pc>>

---------------------------------------------------------------------------
(* Characters and the JavaScript string primitives the source uses.        *)

Digits == {"0", "1", "2", "3", "4", "5", "6", "7", "8", "9"}

\* A character that \d and [0-9] reject.
NonDigit == "x"

Chars == Digits \cup {NonDigit}

\* The digit characters in order of value.
DigitSeq == <<"0", "1", "2", "3", "4", "5", "6", "7", "8", "9">>

\* Number(char) / Number.parseInt(char, 10) on a decimal digit character.
Number(c) ==
  CASE c = "0" -> 0 [] c = "1" -> 1 [] c = "2" -> 2 [] c = "3" -> 3
    [] c = "4" -> 4 [] c = "5" -> 5 [] c = "6" -> 6 [] c = "7" -> 7
    [] c = "8" -> 8 [] c = "9" -> 9

\* The character of a number below ten.
DigitChar(n) ==
  CASE n = 0 -> "0" [] n = 1 -> "1" [] n = 2 -> "2" [] n = 3 -> "3"
    [] n = 4 -> "4" [] n = 5 -> "5" [] n = 6 -> "6" [] n = 7 -> "7"
    [] n = 8 -> "8" [] n = 9 -> "9"

\* n.toString() of a non-negative integer, as its characters.
RECURSIVE ToString(_)
ToString(n) ==
  IF n < 10 THEN <<DigitChar(n)>>
  ELSE ToString(n \div 10) \o <<DigitChar(n % 10)>>

Min(a, b) == IF a <= b THEN a ELSE b

\* s.slice(start, end) and s.substring(start, end) for 0 <= start <= end:
\* the characters at 0-based positions start .. end-1, end clamped to length.
Slice(s, start, end) == SubSeq(s, start + 1, Min(end, Len(s)))

\* s.slice(start) and s.substring(start).
SliceFrom(s, start) == SubSeq(s, start + 1, Len(s))

\* s.padStart(width, "0").
RECURSIVE PadStart(_, _)
PadStart(s, width) ==
  IF Len(s) >= width THEN s ELSE PadStart(<<"0">> \o s, width)

\* /^\d{n}$/.test(s), /^[0-9]{n}$/ : exactly n characters, each a digit.
MatchesDigits(s, n) == Len(s) = n /\ \A i \in 1..Len(s) : s[i] \in Digits

\* The null an encoder returns; no string, since "null" is no character.
NULL == <<"null">>

---------------------------------------------------------------------------
(* Enumerations.                                                           *)

BankCode == [BCP |-> <<"0", "0", "2">>, BBVA |-> <<"0", "1", "1">>]

BCPAccountTypes == [Savings |-> "1", Checking |-> "2", CTS |-> "3"]

---------------------------------------------------------------------------
(* convertBCPAccountNumberToCCI                                            *)

\* product.toString().split("").reduce((a, d) => a + Number(d), 0)
RECURSIVE SumChars(_)
SumChars(s) ==
  IF s = <<>> THEN 0 ELSE Number(s[1]) + SumChars(SubSeq(s, 2, Len(s)))

\* One step of the outer reduce: index is the 0-based position of char.
BCPTerm(char, index) ==
  LET num == Number(char)
      product == num * (IF index % 2 = 0 THEN 1 ELSE 2)
  IN SumChars(ToString(product))

\* group.split("").reduce(..., 0) over positions 0 .. upto-1.
RECURSIVE BCPSum(_, _)
BCPSum(group, upto) ==
  IF upto = 0 THEN 0
  ELSE BCPSum(group, upto - 1) + BCPTerm(group[upto], upto - 1)

\* Variant: the final "% 10" left out, so a sum ending in 0 gives 10.
calculateCheckDigit_NoWrap(group) ==
  LET sum == BCPSum(group, Len(group))
  IN 10 - (sum % 10)

calculateCheckDigit(group) ==
  LET sum == BCPSum(group, Len(group))
  IN (10 - (sum % 10)) % 10

\* Variant: the account type appended to segment 2 instead of prepended.
convertBCPAccountNumberToCCI_TypeLast(acct, type) ==
  IF ~MatchesDigits(acct, 14) THEN NULL
  ELSE
    LET accountSegment1 == Slice(acct, 0, 3)
        accountSegment2 == PadStart(SliceFrom(acct, 3), 11)
        cciSegment1 == BankCode.BCP \o accountSegment1
        cciSegment2 == accountSegment2 \o <<type>>
        checkDigit1 == calculateCheckDigit(cciSegment1)
        checkDigit2 == calculateCheckDigit(cciSegment2)
    IN cciSegment1 \o cciSegment2 \o ToString(checkDigit1)
         \o ToString(checkDigit2)

convertBCPAccountNumberToCCI(acct, type) ==
  IF ~MatchesDigits(acct, 14) THEN NULL
  ELSE
    LET accountSegment1 == Slice(acct, 0, 3)
        accountSegment2 == PadStart(SliceFrom(acct, 3), 11)
        cciSegment1 == BankCode.BCP \o accountSegment1
        cciSegment2 == <<type>> \o accountSegment2
        checkDigit1 == calculateCheckDigit(cciSegment1)
        checkDigit2 == calculateCheckDigit(cciSegment2)
    IN cciSegment1 \o cciSegment2 \o ToString(checkDigit1)
         \o ToString(checkDigit2)

---------------------------------------------------------------------------
(* convertBBVAAccountNumberToCCI                                           *)

\* The body of the for loop shared by both BBVA check digits: the term that
\* 0-based position i of input adds to sum.
BBVATerm(input, weights, i) ==
  LET digit == Number(input[i + 1])
      product == digit * weights[i + 1]
  IN IF product >= 10 THEN (product \div 10) + (product % 10) ELSE product

\* sum after the loop has run over positions 0 .. upto-1.
RECURSIVE BBVASum(_, _, _)
BBVASum(input, weights, upto) ==
  IF upto = 0 THEN 0
  ELSE BBVASum(input, weights, upto - 1) + BBVATerm(input, weights, upto - 1)

FirstWeights == <<0, 1, 2, 1, 0, 2, 1, 2>>

SecondWeights == <<1, 2, 1, 2, 1, 2, 1, 2, 1, 2>>

\* Variant: the alternating weights of the second check digit, so that
\* positions 0 and 4 count.
calculateFirstBBVACheckDigit_Alternating(bank, branch) ==
  LET input == bank \o branch
      sum == BBVASum(input, <<1, 2, 1, 2, 1, 2, 1, 2>>, Len(input))
  IN ToString((10 - (sum % 10)) % 10)

calculateFirstBBVACheckDigit(bank, branch) ==
  LET input == bank \o branch
      sum == BBVASum(input, FirstWeights, Len(input))
  IN ToString((10 - (sum % 10)) % 10)

\* Variant: the weights shifted by one position.
calculateSecondBBVACheckDigit_Shifted(control, account) ==
  LET input == control \o account
      sum == BBVASum(input, <<2, 1, 2, 1, 2, 1, 2, 1, 2, 1>>, Len(input))
  IN ToString((10 - (sum % 10)) % 10)

calculateSecondBBVACheckDigit(control, account) ==
  LET input == control \o account
      sum == BBVASum(input, SecondWeights, Len(input))
  IN ToString((10 - (sum % 10)) % 10)

\* The fields the encoder cuts out of an accepted account number.
BBVAControl(acct) ==
  IF Len(acct) = 18 THEN Slice(acct, 8, 10)
  ELSE Slice(SliceFrom(acct, 10), 0, 2)

BBVAAccount(acct) ==
  IF Len(acct) = 18 THEN SliceFrom(acct, 10)
  ELSE SliceFrom(SliceFrom(acct, 10), 2)

\* Variant: "||" for "&&", which rejects every argument.
BBVARejects_Either(acct) ==
  ~MatchesDigits(acct, 18) \/ ~MatchesDigits(acct, 20)

\* The condition of the early return null.
BBVARejects(acct) ==
  ~MatchesDigits(acct, 18) /\ ~MatchesDigits(acct, 20)

convertBBVAAccountNumberToCCI(acct) ==
  IF BBVARejects(acct) THEN NULL
  ELSE
    LET bank == Slice(acct, 0, 4)
        branch == Slice(acct, 4, 8)
        control == BBVAControl(acct)
        account == BBVAAccount(acct)
        firstCheck == calculateFirstBBVACheckDigit(bank, branch)
        secondCheck == calculateSecondBBVACheckDigit(control, account)
    IN SliceFrom(bank, 1) \o SliceFrom(branch, 1) \o <<"0", "0">>
         \o control \o account \o firstCheck \o secondCheck

---------------------------------------------------------------------------
(* getBankFromCCI and getCCIMetadata                                       *)

BANKS_CCI ==
  << [name |-> "BCP",                id |-> BankCode.BCP],
     [name |-> "INTERBANK",          id |-> <<"0", "0", "3">>],
     [name |-> "SCOTIABANK",         id |-> <<"0", "0", "9">>],
     [name |-> "BBVA",               id |-> BankCode.BBVA],
     [name |-> "BANCO DE LA NACION", id |-> <<"0", "1", "8">>],
     [name |-> "BANBIF",             id |-> <<"0", "3", "8">>],
     [name |-> "MI BANCO",           id |-> <<"0", "4", "9">>] >>

InvalidFormat == "CCI must be numeric and have exactly 20 digits"

UnknownBank == "unknown bank identifier"

\* The two ways a call ends: a thrown Error or a returned value.
Throw(message) == [threw |-> TRUE, message |-> message]

Return(value) == [threw |-> FALSE, value |-> value]

\* BANKS_CCI.find((item) => item.id === bankIdentifier): the index of the
\* first matching entry, 0 when find returns undefined.
FindBank(bankIdentifier) ==
  LET hits == {i \in 1..Len(BANKS_CCI) : BANKS_CCI[i].id = bankIdentifier}
  IN IF hits = {} THEN 0
     ELSE CHOOSE i \in hits : \A j \in hits : i <= j

\* Variant: the table lookup done before the format check.
getBankFromCCI_LookupFirst(c) ==
  LET bankIdentifier == Slice(c, 0, 3)
      bank == FindBank(bankIdentifier)
  IN IF bank = 0 THEN Throw(UnknownBank)
     ELSE IF ~MatchesDigits(c, 20) THEN Throw(InvalidFormat)
     ELSE Return(BANKS_CCI[bank].name)

getBankFromCCI(c) ==
  IF ~MatchesDigits(c, 20) THEN Throw(InvalidFormat)
  ELSE
    LET bankIdentifier == Slice(c, 0, 3)
        bank == FindBank(bankIdentifier)
    IN IF bank = 0 THEN Throw(UnknownBank)
       ELSE Return(BANKS_CCI[bank].name)

\* Variant: the currency read one position early, at cci[14].
BCPMetadata_Currency14(bank, c) ==
  LET accountTypeDigit == Slice(c, 6, 7)
      currency == IF Slice(c, 14, 15) = <<"0">> THEN "PEN" ELSE "USD"
  IN [bank |-> bank,
      accountNumber |-> IF accountTypeDigit = <<"1">>
                        THEN Slice(c, 3, 6) \o Slice(c, 7, 18)
                        ELSE Slice(c, 3, 6) \o Slice(c, 8, 18),
      cci |-> c,
      currency |-> currency,
      type |-> IF accountTypeDigit = <<"1">> THEN "Ahorro" ELSE "Corriente"]

\* Variant: the Ahorro branch with the offsets of the Corriente branch.
BCPMetadata_SameOffsets(bank, c) ==
  LET accountTypeDigit == Slice(c, 6, 7)
  IN [bank |-> bank,
      accountNumber |-> Slice(c, 3, 6) \o Slice(c, 8, 18),
      cci |-> c,
      currency |-> IF Slice(c, 15, 16) = <<"0">> THEN "PEN" ELSE "USD",
      type |-> IF accountTypeDigit = <<"1">> THEN "Ahorro" ELSE "Corriente"]

\* case "BCP": the record the branch returns.
BCPMetadata(bank, c) ==
  LET accountTypeDigit == Slice(c, 6, 7)
  IN IF accountTypeDigit = <<"1">>
     THEN [bank |-> bank,
           accountNumber |-> Slice(c, 3, 6) \o Slice(c, 7, 18),
           cci |-> c,
           currency |-> IF Slice(c, 15, 16) = <<"0">> THEN "PEN" ELSE "USD",
           type |-> "Ahorro"]
     ELSE [bank |-> bank,
           accountNumber |-> Slice(c, 3, 6) \o Slice(c, 8, 18),
           cci |-> c,
           currency |-> IF Slice(c, 15, 16) = <<"0">> THEN "PEN" ELSE "USD",
           type |-> "Corriente"]

\* Variant: the prefix "0011" without the leading "0" of the branch.
BBVAMetadata_ShortPrefix(bank, c) ==
  [bank |-> bank,
   accountNumber |-> <<"0", "0", "1", "1">>
                       \o Slice(c, 3, 6) \o Slice(c, 8, 18),
   cci |-> c]

\* case "BBVA": the record the branch returns.
BBVAMetadata(bank, c) ==
  [bank |-> bank,
   accountNumber |-> <<"0", "0", "1", "1", "0">>
                       \o Slice(c, 3, 6) \o Slice(c, 8, 18),
   cci |-> c]

getCCIMetadata(c) ==
  LET found == getBankFromCCI(c)
      bank == found.value
  IN
  IF found.threw THEN found
  ELSE
    CASE bank = "BCP" -> Return(BCPMetadata(bank, c))
      [] bank = "INTERBANK" ->
           Return([bank |-> bank,
                   accountNumber |-> Slice(c, 3, 6) \o Slice(c, 8, 18),
                   cci |-> c])
      [] bank = "BBVA" -> Return(BBVAMetadata(bank, c))
      [] bank = "SCOTIABANK" ->
           Return([bank |-> bank,
                   accountNumber |-> Slice(c, 3, 6) \o Slice(c, 11, 18),
                   cci |-> c])
      [] bank = "BANBIF" ->
           Return([bank |-> bank,
                   accountNumber |-> <<"0">> \o Slice(c, 7, 18),
                   cci |-> c])
      [] bank = "MI BANCO" ->
           Return([bank |-> bank,
                   accountNumber |-> Slice(c, 8, 18),
                   cci |-> c])
      [] bank = "BANCO DE LA NACION" ->
           Return([bank |-> bank,
                   accountNumber |-> Slice(c, 7, 18),
                   cci |-> c])
      [] OTHER -> Throw(UnknownBank)

---------------------------------------------------------------------------
(* The arguments the caller draws.  Each argument is a base string with at *)
(* most MaxEdits of its characters overwritten by any character of Chars.  *)

MaxEdits == 1

\* One overwrite: position i (1-based) of s becomes c; a position past the
\* end of s leaves s as it is.
Overwrite(s, e) == IF e[1] <= Len(s) THEN [s EXCEPT ![e[1]] = e[2]] ELSE s

RECURSIVE Overwrites(_, _, _)
Overwrites(s, es, k) ==
  IF k = 0 THEN s ELSE Overwrites(Overwrite(s, es[k]), es, k - 1)

\* The length of the longest string of S.
MaxLength(S) ==
  LET lens == {Len(s) : s \in S}
  IN CHOOSE n \in lens : \A m \in lens : m <= n

\* Every string that is a string of S with at most k characters overwritten.
Edited(S, k) ==
  { Overwrites(s, es, k) :
      s \in S, es \in [1..k -> (1..MaxLength(S)) \X Chars] }

\* The string of a sequence of digit values: Str(<<0, 1, 1>>) is "011".
RECURSIVE Str(_)
Str(ds) ==
  IF ds = <<>> THEN <<>>
  ELSE <<DigitSeq[Head(ds) + 1]>> \o Str(Tail(ds))

\* 14-digit BCP account numbers, and one too short and one too long.
BCPBases ==
  { Str(<<1,9,2,0,5,6,7,8,9,1,2,3,4,5>>),
    Str(<<1,9,3,1,2,3,4,5,6,7,8,0,1,2>>),
    Str(<<1,9,2,0,5,6,7,8,9,1,2,3,4>>),
    Str(<<1,9,2,0,5,6,7,8,9,1,2,3,4,5,6>>) }

\* BBVA account numbers in the 18-digit and the 20-digit form, the second
\* with filler at positions 8..9, and one of 19 digits.
BBVABases ==
  { Str(<<0,0,1,1,0,1,2,3,0,2,0,0,1,2,3,4,5,6>>),
    Str(<<0,0,1,1,0,1,2,3,0,0,0,2,0,0,1,2,3,4,5,6>>),
    Str(<<9,0,1,1,7,1,2,3,4,2,0,2,0,0,1,2,3,4,5,6>>),
    Str(<<0,0,1,1,0,1,2,3,0,0,0,2,0,0,1,2,3,4,5>>) }

\* One 20-digit CCI per entry of the bank table (two for BCP, with the
\* account-type digit "1" and "2"), one with a prefix the table lacks, and
\* one of 19 and one of 21 digits.
CCIBases ==
  { Str(<<0,0,2,1,9,2,1,0,5,6,7,8,9,1,2,3,4,5,3,3>>),
    Str(<<0,0,2,1,9,3,2,0,5,6,7,8,9,1,2,0,4,5,5,1>>),
    Str(<<0,0,3,1,2,3,4,5,6,7,8,9,0,1,2,3,4,5,6,7>>),
    Str(<<0,0,9,1,2,3,4,5,6,7,8,9,0,1,2,3,4,5,6,7>>),
    Str(<<0,1,1,1,2,3,0,0,0,2,0,0,1,2,3,4,5,6,7,8>>),
    Str(<<0,1,8,1,2,3,4,5,6,7,8,9,0,1,2,3,4,5,6,7>>),
    Str(<<0,3,8,1,2,3,4,5,6,7,8,9,0,1,2,3,4,5,6,7>>),
    Str(<<0,4,9,1,2,3,4,5,6,7,8,9,0,1,2,3,4,5,6,7>>),
    Str(<<9,0,2,1,2,3,4,5,6,7,8,9,0,1,2,3,4,5,6,7>>),
    Str(<<0,0,2,1,9,2,1,0,5,6,7,8,9,1,2,3,4,5,3>>),
    Str(<<0,0,2,1,9,2,1,0,5,6,7,8,9,1,2,3,4,5,3,3,0>>) }

BCPInputs == Edited(BCPBases, MaxEdits)

BBVAInputs == Edited(BBVABases, MaxEdits)

CCIInputs == Edited(CCIBases, MaxEdits)

AccountTypes ==
  {BCPAccountTypes.Savings, BCPAccountTypes.Checking, BCPAccountTypes.CTS}

\* The digits a second BBVA argument may carry where the first is rewritten.
VariantDigits == {"7"}

Fillers == { <<"4", "2">> }

\* The same account number in another raw form: the 20-digit form of an
\* 18-digit one for each filler of Fillers; the 18-digit form of a 20-digit
\* one, and the 20-digit one with each filler of Fillers.
Reforms(a) ==
  IF Len(a) = 18
  THEN { SubSeq(a, 1, 8) \o f \o SubSeq(a, 9, 18) : f \in Fillers }
  ELSE { SubSeq(a, 1, 8) \o SubSeq(a, 11, 20) }
         \cup { SubSeq(a, 1, 8) \o f \o SubSeq(a, 11, 20) : f \in Fillers }

\* Second arguments for an accepted first argument a: a in either form with
\* positions 0 and 4 rewritten, and a with position 1 or 9 rewritten.
Variants(a) ==
  { [[s EXCEPT ![1] = d0] EXCEPT ![5] = d4] :
      s \in {a} \cup Reforms(a),
      d0 \in VariantDigits \cup {a[1]}, d4 \in VariantDigits \cup {a[5]} }
  \cup { [a EXCEPT ![i] = d] : i \in {2, 10}, d \in VariantDigits }

---------------------------------------------------------------------------
(* The caller.                                                             *)

\* The value of a result variable before the call that sets it.
Unset == <<"unset">>

NoMetadata == [threw |-> FALSE, value |-> [bank |-> "unset"]]

InitCommon ==
  /\ cci = Unset
  /\ metadata = NoMetadata
  /\ recci = Unset
  /\ other = Unset
  /\ otherCci = Unset

InitBCP ==
  /\ accountNumber \in BCPInputs
  /\ accountType \in AccountTypes
  /\ encoder = "BCP"
  /\ pc = "start"
  /\ InitCommon

InitBBVA ==
  /\ accountNumber \in BBVAInputs
  /\ accountType = BCPAccountTypes.Savings
  /\ encoder = "BBVA"
  /\ pc = "start"
  /\ InitCommon

\* encode(acct): the encoder the caller uses.
Encode(acct) ==
  IF encoder = "BCP" THEN convertBCPAccountNumberToCCI(acct, accountType)
  ELSE convertBBVAAccountNumberToCCI(acct)

\* cci = convertBCPAccountNumberToCCI(accountNumber, accountType)
ConvertBCP ==
  /\ pc = "start"
  /\ encoder = "BCP"
  /\ cci' = convertBCPAccountNumberToCCI(accountNumber, accountType)
  /\ pc' = "encoded"
  /\ UNCHANGED <<accountNumber, accountType, encoder, metadata, recci,
                 other, otherCci>>

\* cci = convertBBVAAccountNumberToCCI(accountNumber)
ConvertBBVA ==
  /\ pc = "start"
  /\ encoder = "BBVA"
  /\ cci' = convertBBVAAccountNumberToCCI(accountNumber)
  /\ pc' = "encoded"
  /\ UNCHANGED <<accountNumber, accountType, encoder, metadata, recci,
                 other, otherCci>>

\* metadata = getCCIMetadata(cci), on the string an encoder returned.
Decode ==
  /\ pc = "encoded"
  /\ cci # NULL
  /\ metadata' = getCCIMetadata(cci)
  /\ pc' = "decoded"
  /\ UNCHANGED <<accountNumber, accountType, encoder, cci, recci,
                 other, otherCci>>

\* recci = encode(metadata.accountNumber), after getCCIMetadata returned.
Reencode ==
  /\ pc = "decoded"
  /\ ~metadata.threw
  /\ recci' = Encode(metadata.value.accountNumber)
  /\ pc' = "reencoded"
  /\ UNCHANGED <<accountNumber, accountType, encoder, cci, metadata,
                 other, otherCci>>

\* otherCci = convertBBVAAccountNumberToCCI(other), a second call of the
\* encoder on another argument.
ConvertOther ==
  /\ pc = "encoded"
  /\ encoder = "BBVA"
  /\ cci # NULL
  /\ \E b \in Variants(accountNumber) :
       /\ other' = b
       /\ otherCci' = convertBBVAAccountNumberToCCI(b)
  /\ pc' = "compared"
  /\ UNCHANGED <<accountNumber, accountType, encoder, cci, metadata, recci>>

NextBCP == ConvertBCP \/ Decode \/ Reencode

NextBBVA == ConvertBBVA \/ Decode \/ Reencode \/ ConvertOther

SpecBCP == InitBCP /\ [][NextBCP]_vars

SpecBBVA == InitBBVA /\ [][NextBBVA]_vars

\* Both encoders, one call each.
InitEncode == InitBCP \/ InitBBVA

NextEncode == ConvertBCP \/ ConvertBBVA

SpecEncode == InitEncode /\ [][NextEncode]_vars

\* The decoder alone, on an argument of the caller's.
InitDecode ==
  /\ accountNumber = Unset
  /\ accountType = BCPAccountTypes.Savings
  /\ encoder = "none"
  /\ cci \in CCIInputs
  /\ metadata = NoMetadata
  /\ recci = Unset
  /\ other = Unset
  /\ otherCci = Unset
  /\ pc = "argument"

\* metadata = getCCIMetadata(cci)
GetCCIMetadata ==
  /\ pc = "argument"
  /\ metadata' = getCCIMetadata(cci)
  /\ pc' = "done"
  /\ UNCHANGED <<accountNumber, accountType, encoder, cci, recci,
                 other, otherCci>>

NextDecode == GetCCIMetadata

SpecDecode == InitDecode /\ [][NextDecode]_vars

Init == InitBCP \/ InitBBVA \/ InitDecode

Next ==
  \/ ConvertBCP
  \/ ConvertBBVA
  \/ Decode
  \/ Reencode
  \/ ConvertOther
  \/ GetCCIMetadata

Spec == Init /\ [][Next]_vars

---------------------------------------------------------------------------
(* The vocabulary of the properties, stated apart from the operators above. *)

\* s is a string of exactly n decimal digits.
IsDecimal(s, n) == Len(s) = n /\ \A i \in DOMAIN s : s[i] \in Digits

\* The value of a digit character and the character of a value.
ValueOf(c) == (CHOOSE i \in 1..10 : DigitSeq[i] = c) - 1

CharOf(n) == DigitSeq[n + 1]

\* The sum of the decimal digits of n.
RECURSIVE DecimalDigitSum(_)
DecimalDigitSum(n) ==
  IF n = 0 THEN 0 ELSE (n % 10) + DecimalDigitSum(n \div 10)

\* floor(p/10) + p mod 10 for a product of at least ten, else the product.
Reduced(p) == IF p >= 10 THEN (p \div 10) + (p % 10) ELSE p

RECURSIVE Total(_)
Total(ns) == IF ns = <<>> THEN 0 ELSE Head(ns) + Total(Tail(ns))

\* cd(g) of the BCP encoder: weights 1, 2, 1, 2, ... from position 0.
Cd(g) ==
  LET S == Total([i \in 1..Len(g) |->
                    DecimalDigitSum(ValueOf(g[i])
                                      * (IF (i - 1) % 2 = 0 THEN 1 ELSE 2))])
  IN (10 - (S % 10)) % 10

\* The weighted check digit of the BBVA encoder for a weight vector w.
WeightedCd(g, w) ==
  LET S == Total([i \in 1..Len(g) |-> Reduced(ValueOf(g[i]) * w[i])])
  IN (10 - (S % 10)) % 10

\* The 0-based half-open range s[from:to].
Range(s, from, to) == SubSeq(s, from + 1, to)

\* The fields of a BBVA account number of 18 or 20 digits.
ControlOf(a) == IF Len(a) = 18 THEN Range(a, 8, 10) ELSE Range(a, 10, 12)

AccountOf(a) == IF Len(a) = 18 THEN Range(a, 10, 18) ELSE Range(a, 12, 20)

---------------------------------------------------------------------------
(* C1 *)

\* C1: for every 14-digit a and account type t,
\* convertBCPAccountNumberToCCI(a, t) is the 20-digit string
\* "002" ++ a[0:3] ++ t ++ a[3:14] ++ cd("002" ++ a[0:3]) ++ cd(t ++ a[3:14]),
\* and cd("002192") = 3.
C1_BCPLayout ==
  (pc = "encoded" /\ encoder = "BCP" /\ IsDecimal(accountNumber, 14)) =>
    LET a == accountNumber
        g1 == Str(<<0,0,2>>) \o Range(a, 0, 3)
        g2 == <<accountType>> \o Range(a, 3, 14)
    IN /\ IsDecimal(cci, 20)
       /\ cci = g1 \o g2 \o <<CharOf(Cd(g1))>> \o <<CharOf(Cd(g2))>>
       /\ (g1 = Str(<<0,0,2,1,9,2>>) => cci[19] = "3")

\* The spec's scenario 1 with a Checking account, both check digits traced
\* by hand: group "002192" sums to 17, group "205678912345" to 48.
C1_Witness ==
  /\ pc = "encoded"
  /\ encoder = "BCP"
  /\ accountNumber = Str(<<1,9,2,0,5,6,7,8,9,1,2,3,4,5>>)
  /\ accountType = "2"
  /\ cci = Str(<<0,0,2,1,9,2,2,0,5,6,7,8,9,1,2,3,4,5,3,2>>)

---------------------------------------------------------------------------
(* C2 *)

\* C2: for every a of 18 or 20 digits, convertBBVAAccountNumberToCCI(a) is
\* the 20-digit string bank[1:4] ++ branch[1:4] ++ "00" ++ control ++ account
\* ++ check1 ++ check2, with control and account cut by the length of a,
\* check1 over bank ++ branch with weights [0,1,2,1,0,2,1,2] and check2 over
\* control ++ account with weights [1,2,1,2,1,2,1,2,1,2].
C2_BBVALayout ==
  (pc = "encoded" /\ encoder = "BBVA"
     /\ (IsDecimal(accountNumber, 18) \/ IsDecimal(accountNumber, 20))) =>
    LET a == accountNumber
        bank == Range(a, 0, 4)
        branch == Range(a, 4, 8)
        check1 == WeightedCd(bank \o branch, <<0, 1, 2, 1, 0, 2, 1, 2>>)
        check2 == WeightedCd(ControlOf(a) \o AccountOf(a),
                             <<1, 2, 1, 2, 1, 2, 1, 2, 1, 2>>)
    IN /\ IsDecimal(cci, 20)
       /\ cci = Range(bank, 1, 4) \o Range(branch, 1, 4) \o Str(<<0,0>>)
                  \o ControlOf(a) \o AccountOf(a)
                  \o <<CharOf(check1)>> \o <<CharOf(check2)>>

\* A 20-digit account number with filler "42": "90117123" sums to 13 and
\* "0200123456" to 28.
C2_Witness ==
  /\ pc = "encoded"
  /\ encoder = "BBVA"
  /\ accountNumber = Str(<<9,0,1,1,7,1,2,3,4,2,0,2,0,0,1,2,3,4,5,6>>)
  /\ cci = Str(<<0,1,1,1,2,3,0,0,0,2,0,0,1,2,3,4,5,6,7,2>>)

---------------------------------------------------------------------------
(* C3 *)

\* C3: convertBCPAccountNumberToCCI returns null exactly when its argument
\* is not 14 decimal digits, convertBBVAAccountNumberToCCI exactly when its
\* argument is neither 18 nor 20 decimal digits; every other call returns a
\* string.
C3_NullIffMalformed ==
  pc = "encoded" =>
    /\ encoder = "BCP" =>
         (cci = NULL <=> ~IsDecimal(accountNumber, 14))
    /\ encoder = "BBVA" =>
         (cci = NULL <=> ~(IsDecimal(accountNumber, 18)
                             \/ IsDecimal(accountNumber, 20)))
    /\ cci # NULL => \A i \in DOMAIN cci : cci[i] \in Chars

\* A 14-character argument with a non-digit, rejected by the BCP encoder.
C3_Witness ==
  /\ pc = "encoded"
  /\ encoder = "BCP"
  /\ Len(accountNumber) = 14
  /\ \E i \in DOMAIN accountNumber : accountNumber[i] = NonDigit
  /\ cci = NULL

---------------------------------------------------------------------------
(* C4 *)

ListedPrefixes ==
  { Str(<<0,0,2>>), Str(<<0,0,3>>), Str(<<0,0,9>>), Str(<<0,1,1>>),
    Str(<<0,1,8>>), Str(<<0,3,8>>), Str(<<0,4,9>>) }

\* A record with every field of its bank's variant of CCIMetadata.
Complete(m) ==
  /\ {"bank", "accountNumber", "cci"} \subseteq DOMAIN m
  /\ m.bank = "BCP" =>
       /\ DOMAIN m = {"bank", "accountNumber", "cci", "currency", "type"}
       /\ m.currency \in {"USD", "PEN"}
       /\ m.type \in {"Ahorro", "Corriente"}
  /\ m.bank # "BCP" => DOMAIN m = {"bank", "accountNumber", "cci"}
  /\ \A i \in DOMAIN m.accountNumber : m.accountNumber[i] \in Digits

\* C4: getCCIMetadata(cci) throws the invalid-format error for every string
\* that is not 20 decimal digits, whatever its prefix; otherwise the
\* unknown-bank error when cci[0:3] is not a listed prefix; otherwise it
\* returns a complete record.
C4_ThreeOutcomes ==
  pc = "done" =>
    IF ~IsDecimal(cci, 20)
    THEN metadata = [threw |-> TRUE, message |-> InvalidFormat]
    ELSE IF Range(cci, 0, 3) \notin ListedPrefixes
    THEN metadata = [threw |-> TRUE, message |-> UnknownBank]
    ELSE ~metadata.threw /\ Complete(metadata.value)

\* A 20-character string with an unlisted prefix and a non-digit after it:
\* the format error wins over the unknown-bank error.
C4_Witness ==
  /\ pc = "done"
  /\ Len(cci) = 20
  /\ Range(cci, 0, 3) = Str(<<9,0,2>>)
  /\ \E i \in 4..20 : cci[i] = NonDigit
  /\ metadata = [threw |-> TRUE, message |-> InvalidFormat]

---------------------------------------------------------------------------
(* C5 *)

\* The table of the claim: prefix to bank name.
BankOf(prefix) ==
  CASE prefix = Str(<<0,0,2>>) -> "BCP"
    [] prefix = Str(<<0,0,3>>) -> "INTERBANK"
    [] prefix = Str(<<0,0,9>>) -> "SCOTIABANK"
    [] prefix = Str(<<0,1,1>>) -> "BBVA"
    [] prefix = Str(<<0,1,8>>) -> "BANCO DE LA NACION"
    [] prefix = Str(<<0,3,8>>) -> "BANBIF"
    [] prefix = Str(<<0,4,9>>) -> "MI BANCO"

\* The table of the claim: the account number by the bank's fixed offsets.
AccountNumberOf(bank, c) ==
  CASE bank = "BCP" ->
         IF c[7] = "1" THEN Range(c, 3, 6) \o Range(c, 7, 18)
         ELSE Range(c, 3, 6) \o Range(c, 8, 18)
    [] bank = "INTERBANK" -> Range(c, 3, 6) \o Range(c, 8, 18)
    [] bank = "BBVA" -> Str(<<0,0,1,1,0>>) \o Range(c, 3, 6) \o Range(c, 8, 18)
    [] bank = "SCOTIABANK" -> Range(c, 3, 6) \o Range(c, 11, 18)
    [] bank = "BANBIF" -> Str(<<0>>) \o Range(c, 7, 18)
    [] bank = "MI BANCO" -> Range(c, 8, 18)
    [] bank = "BANCO DE LA NACION" -> Range(c, 7, 18)

\* C5: for a 20-digit cci with a listed prefix, getCCIMetadata returns the
\* record with cci unchanged, the bank of the prefix and the account number
\* of that bank's offsets; the BCP record alone also has type ("Ahorro" iff
\* cci[6] = "1") and currency ("PEN" iff cci[15] = "0").
C5_DecoderTable ==
  (pc = "done" /\ IsDecimal(cci, 20) /\ Range(cci, 0, 3) \in ListedPrefixes) =>
    LET bank == BankOf(Range(cci, 0, 3))
        base == [bank |-> bank,
                 accountNumber |-> AccountNumberOf(bank, cci),
                 cci |-> cci]
        bcp == [bank |-> bank,
                accountNumber |-> AccountNumberOf(bank, cci),
                cci |-> cci,
                currency |-> IF cci[16] = "0" THEN "PEN" ELSE "USD",
                type |-> IF cci[7] = "1" THEN "Ahorro" ELSE "Corriente"]
    IN metadata = [threw |-> FALSE,
                   value |-> IF bank = "BCP" THEN bcp ELSE base]

\* A BCP CCI with account-type digit "2" and cci[15] = "0".
C5_Witness ==
  /\ pc = "done"
  /\ cci = Str(<<0,0,2,1,9,3,2,0,5,6,7,8,9,1,2,0,4,5,5,1>>)
  /\ metadata.value = [bank |-> "BCP",
                       accountNumber |-> Str(<<1,9,3,5,6,7,8,9,1,2,0,4,5>>),
                       cci |-> cci,
                       currency |-> "PEN",
                       type |-> "Corriente"]

---------------------------------------------------------------------------
(* C6 *)

\* C6 as stated: for every 14-digit a and every account type t, encoding the
\* account number decoded from c = convertBCPAccountNumberToCCI(a, t) with
\* the same t returns c.
C6_BCPReencodeAnyType ==
  (pc = "reencoded" /\ encoder = "BCP") => recci = cci

\* C6, amended: for every 14-digit a, re-encoding returns c when t is
\* Savings; when t is Checking or CTS the decoded account number has 13
\* digits and re-encoding returns null.
C6_BCPReencodeSavings ==
  (pc = "reencoded" /\ encoder = "BCP") =>
    /\ accountType = "1" => recci = cci
    /\ accountType \in {"2", "3"} =>
         /\ Len(metadata.value.accountNumber) = 13
         /\ recci = NULL

\* A Savings account number that came back as the same CCI.
C6_Witness ==
  /\ pc = "reencoded"
  /\ encoder = "BCP"
  /\ accountType = "1"
  /\ IsDecimal(cci, 20)
  /\ recci = cci

---------------------------------------------------------------------------
(* C9 *)

\* C9: for every 14-digit a, getCCIMetadata(convertBCPAccountNumberToCCI(a,
\* t)) has bank "BCP"; for Savings type "Ahorro" and accountNumber = a; for
\* Checking and CTS type "Corriente" and accountNumber = a[0:3] ++ a[4:14];
\* currency is "PEN" iff a[11] = "0".
C9_BCPDecodeOffsets ==
  (pc = "decoded" /\ encoder = "BCP" /\ IsDecimal(accountNumber, 14)) =>
    LET a == accountNumber
        m == metadata.value
    IN /\ ~metadata.threw
       /\ m.bank = "BCP"
       /\ accountType = "1" =>
            m.type = "Ahorro" /\ m.accountNumber = a
       /\ accountType \in {"2", "3"} =>
            /\ m.type = "Corriente"
            /\ m.accountNumber = Range(a, 0, 3) \o Range(a, 4, 14)
            /\ Len(m.accountNumber) = 13
       /\ m.currency \in {"PEN", "USD"}
       /\ (m.currency = "PEN" <=> a[12] = "0")

\* A CTS account with a[11] = "0": thirteen digits come back, in soles.
C9_Witness ==
  /\ pc = "decoded"
  /\ encoder = "BCP"
  /\ accountType = "3"
  /\ accountNumber = Str(<<1,9,3,1,2,3,4,5,6,7,8,0,1,2>>)
  /\ metadata.value.accountNumber = Str(<<1,9,3,2,3,4,5,6,7,8,0,1,2>>)
  /\ metadata.value.type = "Corriente"
  /\ metadata.value.currency = "PEN"

---------------------------------------------------------------------------
(* C7 *)

\* C7: for every a of 18 or 20 digits with a[1:4] = "011", the CCI c of a
\* decodes as bank BBVA and encoding the decoded account number returns c,
\* whatever a[0], a[4] and the form of a are.
C7_BBVAReencode ==
  (pc = "reencoded" /\ encoder = "BBVA"
     /\ Range(accountNumber, 1, 4) = Str(<<0,1,1>>)) =>
    /\ metadata.value.bank = "BBVA"
    /\ IsDecimal(cci, 20)
    /\ recci = cci

\* The 20-digit form with a[0] = "9" and a[4] = "7".
C7_Witness ==
  /\ pc = "reencoded"
  /\ encoder = "BBVA"
  /\ accountNumber = Str(<<9,0,1,1,7,1,2,3,4,2,0,2,0,0,1,2,3,4,5,6>>)
  /\ metadata.value.accountNumber = Str(<<0,0,1,1,0,1,2,3,0,2,0,0,1,2,3,4,5,6>>)
  /\ recci = cci

---------------------------------------------------------------------------
(* C10 *)

\* a and b agree on every field the BBVA encoder keeps.
SameKept(a, b) ==
  /\ Range(a, 1, 4) = Range(b, 1, 4)
  /\ Range(a, 5, 8) = Range(b, 5, 8)
  /\ ControlOf(a) = ControlOf(b)
  /\ AccountOf(a) = AccountOf(b)

\* C10: two accepted arguments of convertBBVAAccountNumberToCCI that agree
\* on bank[1:4], branch[1:4], control and account get the same CCI.
C10_DroppedDigits ==
  (pc = "compared" /\ otherCci # NULL /\ SameKept(accountNumber, other)) =>
    otherCci = cci

\* An 18-digit and a 20-digit argument that also differ at positions 0 and
\* 4, with one CCI: the encoder is not injective.
C10_Witness ==
  /\ pc = "compared"
  /\ Len(accountNumber) = 18
  /\ Len(other) = 20
  /\ accountNumber[1] # other[1]
  /\ accountNumber[5] # other[5]
  /\ IsDecimal(cci, 20)
  /\ otherCci = cci

---------------------------------------------------------------------------
(* C8 *)

\* C8: every non-null result of an encoder is 20 decimal digits, starts with
\* the code of the encoder's bank, and getCCIMetadata returns for it a record
\* of that bank.
C8_EncoderBank ==
  pc = "decoded" =>
    /\ IsDecimal(cci, 20)
    /\ encoder = "BCP" => Range(cci, 0, 3) = Str(<<0,0,2>>)
    /\ encoder = "BBVA" => Range(cci, 0, 3) = Str(<<0,1,1>>)
    /\ ~metadata.threw
    /\ metadata.value.bank = encoder

====
